---- MODULE Spec2Model ----
(***************************************************************************)
(* Model of src/src/sharpTransformer.ts: the sharpTransformer descriptor   *)
(* and its transform operation.  A transform call builds a working image   *)
(* (a sharp instance), invokes operations on it statement by statement,    *)
(* starts the encode with toBuffer() and awaits the engine's answer.       *)
(*                                                                         *)
(* The engine (sharp) is lazy: every method invoked on the working image   *)
(* only records a directive; decoding, the pixel work and the encoding     *)
(* happen after toBuffer(), and every engine failure surfaces as the       *)
(* rejection of the awaited promise.  The working image is therefore       *)
(* modelled as the sequence of invocations recorded on it, and the engine  *)
(* as a function of the input bytes and that sequence.                     *)
(***************************************************************************)
EXTENDS Integers, Sequences, FiniteSets, TLC

VARIABLES calls, descriptor

vars == <<calls, descriptor>>

\* Number of transform calls that may be in flight together.
MaxCalls == 2

CallIds == 1..MaxCalls

\* null / absent value of an optional field, and a present value.
Null == <<>>

Some(v) == <<v>>

-----------------------------------------------------------------------------
\* enum MimeType

SVG == "image/svg+xml"

JPEG == "image/jpeg"

PNG == "image/png"

GIF == "image/gif"

WEBP == "image/webp"

BMP == "image/bmp"

TIFF == "image/tiff"

AVIF == "image/avif"

MimeType == {SVG, JPEG, PNG, GIF, WEBP, BMP, TIFF, AVIF}

supportedInputs == {JPEG, PNG, GIF, WEBP, TIFF, AVIF}

supportedOutputsWithBmp == {JPEG, PNG, GIF, WEBP, BMP, TIFF, AVIF}

supportedOutputs == {JPEG, PNG, GIF, WEBP, TIFF, AVIF}

fallbackOutput == PNG

\* The shared Transformer object (its transform member is the actions below).
sharpTransformer ==
  [name |-> "sharpTransformer",
   supportedInputs |-> supportedInputs,
   supportedOutputs |-> supportedOutputs,
   fallbackOutput |-> fallbackOutput]

-----------------------------------------------------------------------------
\* Inputs of a call.  Encoded bytes are abstracted to what the engine reads
\* from them: the format, whether they decode, the pixel dimensions and which
\* source corner sits at the top-left, top-right, bottom-left and
\* bottom-right of the picture (its orientation), and the blur applied.

SourceCorners == <<"TL", "TR", "BL", "BR">>

AnimatedGif ==
  [format |-> GIF, valid |-> TRUE, width |-> 4, height |-> 3,
   corners |-> SourceCorners, sigma |-> 0]

StillPng ==
  [format |-> PNG, valid |-> TRUE, width |-> 5, height |-> 4,
   corners |-> SourceCorners, sigma |-> 0]

Garbage ==
  [format |-> PNG, valid |-> FALSE, width |-> 0, height |-> 0,
   corners |-> SourceCorners, sigma |-> 0]

Inputs ==
  {[url |-> "u", data |-> d, contentType |-> d.format] : d \in {AnimatedGif, StillPng, Garbage}}

\* Resolved option values the calls are made with.
Sizes ==
  {[width |-> Null, height |-> Null, fit |-> "contain"],
   [width |-> Some(2), height |-> Null, fit |-> "contain"],
   [width |-> Null, height |-> Some(1), fit |-> "cover"],
   [width |-> Some(2), height |-> Some(2), fit |-> "fill"]}

EncoderParams ==
  {[quality |-> 80, compressionLevel |-> 9, loop |-> 0, delay |-> 100],
   [quality |-> 50, compressionLevel |-> 6, loop |-> 2, delay |-> 200]}

Crops ==
  {Null,
   Some([x |-> 1, y |-> 0, width |-> 2, height |-> 1]),
   Some([x |-> 2, y |-> 1, width |-> 4, height |-> 3])}

Flips == {Null, Some("horizontal"), Some("vertical"), Some("both")}

Rotations == {Null, Some(0), Some(90), Some(-90)}

BlurRadii == {Null, Some(0), Some(2)}

\* Required<TransformOptions>
MkOptions(ct, s, p, crop, flip, rotate, blur) ==
  [contentType |-> ct,
   width |-> s.width,
   height |-> s.height,
   fit |-> s.fit,
   position |-> "center",
   background |-> <<0, 0, 0, 0>>,
   quality |-> p.quality,
   compressionLevel |-> p.compressionLevel,
   loop |-> p.loop,
   delay |-> p.delay,
   blurRadius |-> blur,
   rotate |-> rotate,
   flip |-> flip,
   crop |-> crop]

-----------------------------------------------------------------------------
\* The statements of transform, in program order.

FixedBackground(background) ==
  [r |-> background[1], g |-> background[2], b |-> background[3],
   alpha |-> background[4]]

\* sharp(data, { animated: true })
Sharp(data) == [input |-> data, animated |-> TRUE, ops |-> <<>>]

EnsureAlphaCalls == <<[op |-> "ensureAlpha", args |-> [alpha |-> 1]]>>

CropRequested(crop) == crop # Null

ExtractArgsSwapped(crop) ==
  [left |-> crop.x, top |-> crop.y, width |-> crop.height, height |-> crop.width]

ExtractArgsOrigin(crop) ==
  [left |-> 0, top |-> 0, width |-> crop.width, height |-> crop.height]

ExtractArgs(crop) ==
  [left |-> crop.x, top |-> crop.y, width |-> crop.width, height |-> crop.height]

CropCalls(o) ==
  IF CropRequested(o.crop)
  THEN <<[op |-> "extract", args |-> ExtractArgs(o.crop[1])]>>
  ELSE <<>>

ResizeRequested(width, height) == width # Null \/ height # Null

ResizeCalls(o, fixedBackground) ==
  IF ResizeRequested(o.width, o.height)
  THEN <<[op |-> "resize",
          args |-> [width |-> o.width, height |-> o.height, fit |-> o.fit,
                    position |-> o.position, background |-> fixedBackground]]>>
  ELSE <<>>

FlopRequestedHorizontalOnly(flip) == flip # Null /\ flip[1] = "horizontal"

FlopRequested(flip) == flip # Null /\ flip[1] \in {"horizontal", "both"}

FlopCalls(o) ==
  IF FlopRequested(o.flip) THEN <<[op |-> "flop", args |-> <<>>]>> ELSE <<>>

FlipRequested(flip) == flip # Null /\ flip[1] \in {"vertical", "both"}

FlipCalls(o) ==
  IF FlipRequested(o.flip) THEN <<[op |-> "flip", args |-> <<>>]>> ELSE <<>>

RotateRequestedNonNull(rotate) == rotate # Null

\* rotate && rotate != 0
RotateRequested(rotate) == rotate # Null /\ rotate[1] # 0

RotateCalls(o, fixedBackground) ==
  IF RotateRequested(o.rotate)
  THEN <<[op |-> "rotate",
          args |-> [angle |-> o.rotate[1], background |-> fixedBackground]]>>
  ELSE <<>>

\* blurRadius && blurRadius > 0
BlurRequested(blurRadius) == blurRadius # Null /\ blurRadius[1] > 0

BlurCalls(o) ==
  IF BlurRequested(o.blurRadius)
  THEN <<[op |-> "blur", args |-> [sigma |-> o.blurRadius[1]]]>>
  ELSE <<>>

\* The chained encode directives and toBuffer().
EncodeCalls(o) ==
  <<[op |-> "jpeg", format |-> JPEG,
     args |-> [quality |-> o.quality, progressive |-> TRUE,
               force |-> (o.contentType = JPEG)]],
    [op |-> "png", format |-> PNG,
     args |-> [progressive |-> TRUE, compressionLevel |-> o.compressionLevel,
               force |-> (o.contentType = PNG)]],
    [op |-> "gif", format |-> GIF,
     args |-> [loop |-> o.loop, delay |-> o.delay,
               force |-> (o.contentType = GIF)]],
    [op |-> "webp", format |-> WEBP,
     args |-> [quality |-> o.quality, force |-> (o.contentType = WEBP)]],
    [op |-> "tiff", format |-> TIFF,
     args |-> [quality |-> o.quality, force |-> (o.contentType = TIFF)]],
    [op |-> "avif", format |-> AVIF,
     args |-> [quality |-> o.quality, force |-> (o.contentType = AVIF)]],
    [op |-> "toBuffer", args |-> <<>>]>>

EncoderOps == {"jpeg", "png", "gif", "webp", "tiff", "avif"}

-----------------------------------------------------------------------------
\* The engine.  It decodes the input and performs the recorded directives in
\* the order in which they were invoked; the first failure ends the work.

Max(a, b) == IF a >= b THEN a ELSE b

\* n / d rounded to the nearest pixel, at least one pixel
Round(n, d) == Max(1, (2 * n + d) \div (2 * d))

Decode(data) ==
  [error |-> IF data.valid THEN "none" ELSE "unsupported image format",
   format |-> data.format, width |-> data.width, height |-> data.height,
   corners |-> data.corners, sigma |-> data.sigma, alpha |-> FALSE]

Extract(img, a) ==
  IF a.left + a.width <= img.width /\ a.top + a.height <= img.height
  THEN [img EXCEPT !.width = a.width, !.height = a.height]
  ELSE [img EXCEPT !.error = "bad extract area"]

ResizeWidth(img, a) ==
  IF a.height = Null THEN a.width[1]
  ELSE IF a.width = Null THEN Round(img.width * a.height[1], img.height)
  ELSE IF a.fit \in {"contain", "cover", "fill"} THEN a.width[1]
  ELSE IF (a.fit = "inside") = (a.width[1] * img.height <= a.height[1] * img.width)
       THEN a.width[1]
       ELSE Round(img.width * a.height[1], img.height)

ResizeHeight(img, a) ==
  IF a.width = Null THEN a.height[1]
  ELSE IF a.height = Null THEN Round(img.height * a.width[1], img.width)
  ELSE IF a.fit \in {"contain", "cover", "fill"} THEN a.height[1]
  ELSE IF (a.fit = "inside") = (a.width[1] * img.height <= a.height[1] * img.width)
       THEN Round(img.height * a.width[1], img.width)
       ELSE a.height[1]

Resize(img, a) ==
  [img EXCEPT !.width = ResizeWidth(img, a), !.height = ResizeHeight(img, a)]

\* corners are <<top-left, top-right, bottom-left, bottom-right>>
MirrorHorizontal(img) ==
  [img EXCEPT !.corners = <<@[2], @[1], @[4], @[3]>>]

MirrorVertical(img) ==
  [img EXCEPT !.corners = <<@[3], @[4], @[1], @[2]>>]

QuarterTurn(img) ==
  [img EXCEPT !.corners = <<@[3], @[1], @[4], @[2]>>,
              !.width = img.height, !.height = img.width]

\* rotation by a multiple of 90 degrees, clockwise for a positive angle
Rotate(img, a) ==
  CASE a.angle % 360 = 0 -> img
    [] a.angle % 360 = 90 -> QuarterTurn(img)
    [] a.angle % 360 = 180 -> QuarterTurn(QuarterTurn(img))
    [] a.angle % 360 = 270 -> QuarterTurn(QuarterTurn(QuarterTurn(img)))

Blur(img, a) == [img EXCEPT !.sigma = @ + a.sigma]

\* An encode directive selects the output format only when forced; with no
\* forced directive the output keeps the format of the input.
ApplyOp(img, inv) ==
  CASE inv.op = "ensureAlpha" -> [img EXCEPT !.alpha = TRUE]
    [] inv.op = "extract" -> Extract(img, inv.args)
    [] inv.op = "resize" -> Resize(img, inv.args)
    [] inv.op = "flop" -> MirrorHorizontal(img)
    [] inv.op = "flip" -> MirrorVertical(img)
    [] inv.op = "rotate" -> Rotate(img, inv.args)
    [] inv.op = "blur" -> Blur(img, inv.args)
    [] inv.op \in EncoderOps ->
         IF inv.args.force THEN [img EXCEPT !.format = inv.format] ELSE img
    [] inv.op = "toBuffer" -> img

RECURSIVE Pipeline(_, _)
Pipeline(img, ops) ==
  IF ops = <<>> \/ img.error # "none"
  THEN img
  ELSE Pipeline(ApplyOp(img, Head(ops)), Tail(ops))

\* What the promise returned by toBuffer() settles to.
Process(image) ==
  LET img == Pipeline(Decode(image.input), image.ops)
  IN  IF img.error = "none"
      THEN [ok |-> TRUE,
            bytes |-> [format |-> img.format, valid |-> TRUE,
                       width |-> img.width, height |-> img.height,
                       corners |-> img.corners, sigma |-> img.sigma]]
      ELSE [ok |-> FALSE, error |-> img.error]

\* One whole transform call, run on its own.
Transform(input, o) ==
  Process([Sharp(input.data) EXCEPT !.ops =
             EnsureAlphaCalls
             \o CropCalls(o)
             \o ResizeCalls(o, FixedBackground(o.background))
             \o FlopCalls(o)
             \o FlipCalls(o)
             \o RotateCalls(o, FixedBackground(o.background))
             \o BlurCalls(o)
             \o EncodeCalls(o)])

-----------------------------------------------------------------------------
\* The calls in flight.

Idle ==
  [pc |-> "idle", input |-> Null, desired |-> Null, options |-> Null,
   fixedBackground |-> Null, image |-> Null, result |-> Null, outcome |-> Null]

StatementsResizeFirst ==
  <<"ensureAlpha", "resize", "crop", "flop", "flip", "rotate", "blur", "encode">>

Statements ==
  <<"ensureAlpha", "crop", "resize", "flop", "flip", "rotate", "blur", "encode">>

\* position of a statement in the body of transform
Index(pc) == CHOOSE i \in 1..Len(Statements) : Statements[i] = pc

\* the statement after pc; the await follows the last one
Follow(pc) ==
  IF Index(pc) = Len(Statements) THEN "await" ELSE Statements[Index(pc) + 1]

InvokeShared(cs, id, invs) ==
  LET owner == CHOOSE j \in CallIds : cs[j].pc # "idle"
  IN  [cs EXCEPT ![owner].image.ops = @ \o invs]

\* invocations on the call's own working image (const image)
Invoke(cs, id, invs) == [cs EXCEPT ![id].image.ops = @ \o invs]

Advance(cs, id) == [cs EXCEPT ![id].pc = Follow(@)]

Init ==
  /\ calls = [id \in CallIds |-> Idle]
  /\ descriptor = sharpTransformer

\* Entry of transform: the arguments are bound, fixedBackground is built and
\* the working image is created.
Call(id, input, desired, options) ==
  /\ calls[id].pc = "idle"
  /\ calls' = [calls EXCEPT ![id] =
       [pc |-> Statements[1], input |-> input, desired |-> desired,
        options |-> options,
        fixedBackground |-> FixedBackground(options.background),
        image |-> Sharp(input.data), result |-> Null, outcome |-> Null]]
  /\ UNCHANGED descriptor

EnsureAlpha(id) ==
  /\ calls[id].pc = "ensureAlpha"
  /\ calls' = Advance(Invoke(calls, id, EnsureAlphaCalls), id)
  /\ UNCHANGED descriptor

Crop(id) ==
  /\ calls[id].pc = "crop"
  /\ calls' = Advance(Invoke(calls, id, CropCalls(calls[id].options)), id)
  /\ UNCHANGED descriptor

ResizeStep(id) ==
  /\ calls[id].pc = "resize"
  /\ calls' = Advance(Invoke(calls, id,
                 ResizeCalls(calls[id].options, calls[id].fixedBackground)), id)
  /\ UNCHANGED descriptor

Flop(id) ==
  /\ calls[id].pc = "flop"
  /\ calls' = Advance(Invoke(calls, id, FlopCalls(calls[id].options)), id)
  /\ UNCHANGED descriptor

Flip(id) ==
  /\ calls[id].pc = "flip"
  /\ calls' = Advance(Invoke(calls, id, FlipCalls(calls[id].options)), id)
  /\ UNCHANGED descriptor

RotateStep(id) ==
  /\ calls[id].pc = "rotate"
  /\ calls' = Advance(Invoke(calls, id,
                 RotateCalls(calls[id].options, calls[id].fixedBackground)), id)
  /\ UNCHANGED descriptor

BlurStep(id) ==
  /\ calls[id].pc = "blur"
  /\ calls' = Advance(Invoke(calls, id, BlurCalls(calls[id].options)), id)
  /\ UNCHANGED descriptor

\* image.jpeg(..).png(..).gif(..).webp(..).tiff(..).avif(..).toBuffer()
Encode(id) ==
  /\ calls[id].pc = "encode"
  /\ calls' = Advance(Invoke(calls, id, EncodeCalls(calls[id].options)), id)
  /\ UNCHANGED descriptor

\* The engine finishes its work and the awaited promise settles.
Settle(id) ==
  /\ calls[id].pc = "await"
  /\ calls' = [calls EXCEPT ![id].pc = "settled",
                            ![id].result = Process(calls[id].image)]
  /\ UNCHANGED descriptor

\* The continuation after the await: return new Uint8Array(result), or the
\* rejection propagates out of the async function.
Return(id) ==
  /\ calls[id].pc = "settled"
  /\ calls' = [calls EXCEPT ![id].pc = "done",
                            ![id].outcome = calls[id].result]
  /\ UNCHANGED descriptor

Step(id) ==
  \/ EnsureAlpha(id)
  \/ Crop(id)
  \/ ResizeStep(id)
  \/ Flop(id)
  \/ Flip(id)
  \/ RotateStep(id)
  \/ BlurStep(id)
  \/ Encode(id)
  \/ Settle(id)
  \/ Return(id)

\* A caller passes any resolved option set to transform.
DirectCall ==
  /\ calls[1].pc = "idle"
  /\ \E input \in Inputs, ct \in MimeType, s \in Sizes, p \in EncoderParams,
     crop \in Crops, flip \in Flips, rotate \in Rotations, blur \in BlurRadii :
       Call(1, input, ct, MkOptions(ct, s, p, crop, flip, rotate, blur))

Next == DirectCall \/ Step(1)

Spec == Init /\ [][Next]_vars

\* Several calls in flight, their statements interleaved.
ConcurrentArgs ==
  LET gif == CHOOSE i \in Inputs : i.data = AnimatedGif
      png == CHOOSE i \in Inputs : i.data = StillPng
      bad == CHOOSE i \in Inputs : i.data = Garbage
      s0 == [width |-> Null, height |-> Null, fit |-> "contain"]
      s2 == [width |-> Some(2), height |-> Some(2), fit |-> "fill"]
      p0 == [quality |-> 80, compressionLevel |-> 9, loop |-> 0, delay |-> 100]
      p1 == [quality |-> 50, compressionLevel |-> 6, loop |-> 2, delay |-> 200]
      inside == Some([x |-> 1, y |-> 0, width |-> 2, height |-> 1])
      outside == Some([x |-> 2, y |-> 1, width |-> 4, height |-> 3])
  IN  {<<gif, MkOptions(JPEG, s2, p1, inside, Some("both"), Some(90), Some(2))>>,
       <<gif, MkOptions(GIF, s0, p0, Null, Null, Null, Null)>>,
       <<png, MkOptions(WEBP, s0, p1, inside, Some("both"), Null, Some(2))>>,
       <<png, MkOptions(PNG, s2, p0, outside, Null, Some(-90), Null)>>,
       <<gif, MkOptions(BMP, s0, p0, outside, Some("horizontal"), Some(0), Some(0))>>,
       <<bad, MkOptions(WEBP, s0, p0, Null, Some("vertical"), Null, Null)>>}

ConcurrentCall ==
  \E id \in CallIds :
    /\ calls[id].pc = "idle"
    /\ \E a \in ConcurrentArgs : Call(id, a[1], a[2].contentType, a[2])

NextConcurrent == ConcurrentCall \/ \E id \in CallIds : Step(id)

SpecConcurrent == Init /\ [][NextConcurrent]_vars

\* The dispatch layer above: it substitutes the fallback output for a desired
\* content type the transformer does not support, then calls transform.
Substitute(desired) ==
  IF desired \in descriptor.supportedOutputs THEN desired
  ELSE descriptor.fallbackOutput

DispatchCall ==
  /\ calls[1].pc = "idle"
  /\ \E input \in Inputs, desired \in MimeType, p \in EncoderParams, crop \in Crops,
     flip \in Flips :
       Call(1, input, desired,
            MkOptions(Substitute(desired),
                      [width |-> Null, height |-> Null, fit |-> "contain"],
                      p, crop, flip, Null, Null))

NextDispatch == DispatchCall \/ Step(1)

SpecDispatch == Init /\ [][NextDispatch]_vars

-----------------------------------------------------------------------------
\* Vocabulary of the properties.

Started(c) == c.pc # "idle"

\* statement stmt of the body has been executed by call c
Past(c, stmt) ==
  /\ Started(c)
  /\ c.pc \in {"await", "settled", "done"} \/ Index(c.pc) > Index(stmt)

Positions(c, op) == {i \in DOMAIN c.image.ops : c.image.ops[i].op = op}

Invoked(c, op) == Positions(c, op) # {}

Directives(c) == {i \in DOMAIN c.image.ops : c.image.ops[i].op \in EncoderOps}

Forced(c) == {c.image.ops[i].format : i \in {j \in Directives(c) : c.image.ops[j].args.force}}

OperationOrder ==
  <<"ensureAlpha", "extract", "resize", "flop", "flip", "rotate", "blur",
    "jpeg", "png", "gif", "webp", "tiff", "avif", "toBuffer">>

Rank(op) == CHOOSE i \in DOMAIN OperationOrder : OperationOrder[i] = op

RotationAsked(o) == o.rotate # Null /\ o.rotate[1] # 0

CropExceeds(c) ==
  /\ c.options.crop # Null
  /\ c.input.data.valid
  /\ \/ c.options.crop[1].x + c.options.crop[1].width > c.input.data.width
     \/ c.options.crop[1].y + c.options.crop[1].height > c.input.data.height

-----------------------------------------------------------------------------
\* C1: the operations a call invokes on its working image occur in the fixed
\* order ensureAlpha, extract, resize, flop, flip, rotate, blur, encode
\* (the six encode directives and toBuffer), none twice; ensureAlpha is
\* invoked first in every call, and the encode comes last.
C1_FixedOperationOrder ==
  \A id \in CallIds :
    LET c == calls[id]
        ops == c.image.ops
    IN  Started(c) =>
          /\ \A i, j \in DOMAIN ops :
               i < j => Rank(ops[i].op) < Rank(ops[j].op)
          /\ Past(c, "ensureAlpha") => Len(ops) >= 1 /\ ops[1].op = "ensureAlpha"
          /\ Past(c, "encode") =>
               /\ ops[Len(ops)].op = "toBuffer"
               /\ \A e \in EncoderOps : Invoked(c, e)

C1_Witness ==
  \E id \in CallIds :
    /\ calls[id].pc = "done"
    /\ Len(calls[id].image.ops) = Len(OperationOrder)

\* C2: a call whose contentType is not in supportedOutputs invokes no encoder
\* and fails with UnsupportedOutputError, returning no bytes.
C2_UnsupportedOutputRejected ==
  \A id \in CallIds :
    LET c == calls[id]
    IN  (c.pc = "done" /\ c.options.contentType \notin descriptor.supportedOutputs) =>
          /\ Directives(c) = {}
          /\ ~Invoked(c, "toBuffer")
          /\ ~c.outcome.ok
          /\ c.outcome.error = "UnsupportedOutputError"

\* C3: in every call exactly one of the six encode directives is forced, the
\* one whose format equals contentType.
C3_ExactlyOneForced ==
  \A id \in CallIds :
    LET c == calls[id]
    IN  Past(c, "encode") =>
          /\ Cardinality(Directives(c)) = 6
          /\ Cardinality({i \in Directives(c) : c.image.ops[i].args.force}) = 1
          /\ \A i \in Directives(c) :
               c.image.ops[i].args.force <=>
                 c.image.ops[i].format = c.options.contentType

C5_SkipPolicy ==
  \A id \in CallIds :
    LET c == calls[id]
        o == c.options
    IN  /\ Past(c, "crop") => (Invoked(c, "extract") <=> o.crop # Null)
        /\ Past(c, "resize") =>
             (Invoked(c, "resize") <=> (o.width # Null \/ o.height # Null))
        /\ Past(c, "flip") =>
             (o.flip = Null => ~Invoked(c, "flop") /\ ~Invoked(c, "flip"))
        /\ Past(c, "rotate") =>
             /\ Invoked(c, "rotate") <=> (o.rotate # Null /\ o.rotate[1] # 0)
             /\ \A i \in Positions(c, "rotate") :
                  /\ c.image.ops[i].args.angle # 0
                  /\ c.image.ops[i].args.angle = o.rotate[1]
        /\ Past(c, "blur") =>
             (Invoked(c, "blur") <=> (o.blurRadius # Null /\ o.blurRadius[1] > 0))

C5_Witness ==
  \E id \in CallIds :
    LET c == calls[id]
    IN  /\ c.pc = "done"
        /\ c.options.rotate = Some(0)
        /\ c.options.blurRadius = Some(0)
        /\ c.options.flip = Null
        /\ c.options.crop # Null
        /\ c.options.height # Null
        /\ ~Invoked(c, "rotate")
        /\ Invoked(c, "extract")

\* C6: flip = both invokes flop then flip, once each; horizontal only flop;
\* vertical only flip.  When no rotation follows the mirroring, the result
\* of both is the horizontal-only result passed through a vertical-only
\* transform, and also the vertical-only result passed through a
\* horizontal-only transform.
C6_FlipDispatch ==
  \A id \in CallIds :
    LET c == calls[id]
        o == c.options
        plain(f) ==
          MkOptions(o.contentType,
                    [width |-> Null, height |-> Null, fit |-> o.fit],
                    [quality |-> o.quality, compressionLevel |-> o.compressionLevel,
                     loop |-> o.loop, delay |-> o.delay],
                    Null, Some(f), Null, Null)
        only(f) == Transform(c.input, [o EXCEPT !.flip = Some(f)])
        then(first, second) ==
          Transform([c.input EXCEPT !.data = only(first).bytes], plain(second))
    IN  /\ (Past(c, "flip") /\ o.flip = Some("both")) =>
             /\ Cardinality(Positions(c, "flop")) = 1
             /\ Cardinality(Positions(c, "flip")) = 1
             /\ \A i \in Positions(c, "flop"), j \in Positions(c, "flip") : i < j
        /\ (Past(c, "flip") /\ o.flip = Some("horizontal")) =>
             /\ Cardinality(Positions(c, "flop")) = 1
             /\ ~Invoked(c, "flip")
        /\ (Past(c, "flip") /\ o.flip = Some("vertical")) =>
             /\ Cardinality(Positions(c, "flip")) = 1
             /\ ~Invoked(c, "flop")
        /\ (c.pc = "done" /\ o.flip = Some("both") /\ ~RotationAsked(o)
              /\ c.outcome.ok) =>
             /\ only("horizontal").ok /\ only("vertical").ok
             /\ then("horizontal", "vertical") = c.outcome
             /\ then("vertical", "horizontal") = c.outcome

C6_Witness ==
  \E id \in CallIds :
    LET c == calls[id]
    IN  /\ c.pc = "done"
        /\ c.options.flip = Some("both")
        /\ ~RotationAsked(c.options)
        /\ c.outcome.ok
        /\ c.outcome.bytes.corners = <<"BR", "BL", "TR", "TL">>

\* C7: quality goes to the jpeg, webp, tiff and avif directives,
\* compressionLevel to the png directive, and the directive of each
\* animation-capable encoder (gif and webp) carries exactly the resolved loop
\* and delay.
C7_ParameterRouting ==
  \A id \in CallIds :
    LET c == calls[id]
        o == c.options
        ops == c.image.ops
    IN  Past(c, "encode") =>
          \A i \in Directives(c) :
            /\ ops[i].format \in {JPEG, WEBP, TIFF, AVIF} =>
                 "quality" \in DOMAIN ops[i].args /\ ops[i].args.quality = o.quality
            /\ ops[i].format = PNG =>
                 /\ "compressionLevel" \in DOMAIN ops[i].args
                 /\ ops[i].args.compressionLevel = o.compressionLevel
            /\ ops[i].format \in {GIF, WEBP} =>
                 /\ "loop" \in DOMAIN ops[i].args
                 /\ "delay" \in DOMAIN ops[i].args
                 /\ ops[i].args.loop = o.loop
                 /\ ops[i].args.delay = o.delay

\* C8: with no resize and no rotation, a successful call's output has the
\* crop rectangle's dimensions when crop is given and the input's dimensions
\* otherwise, whatever flip and blur are.
C8_OutputDimensions ==
  \A id \in CallIds :
    LET c == calls[id]
        o == c.options
    IN  (c.pc = "done" /\ c.outcome.ok /\ o.width = Null /\ o.height = Null
           /\ ~RotationAsked(o)) =>
          IF o.crop # Null
          THEN /\ c.outcome.bytes.width = o.crop[1].width
               /\ c.outcome.bytes.height = o.crop[1].height
          ELSE /\ c.outcome.bytes.width = c.input.data.width
               /\ c.outcome.bytes.height = c.input.data.height

C8_Witness ==
  \E id \in CallIds :
    LET c == calls[id]
    IN  /\ c.pc = "done"
        /\ c.outcome.ok
        /\ c.options.width = Null /\ c.options.height = Null
        /\ ~RotationAsked(c.options)
        /\ c.options.crop # Null
        /\ c.options.blurRadius = Some(2)
        /\ c.options.flip # Null
        /\ c.outcome.bytes.width = 2 /\ c.outcome.bytes.height = 1
        /\ c.input.data.width # 2

\* C9: every step of a call changes that call alone; the descriptor, and the
\* input and options of a call in flight, never change; a finished call has
\* the outcome of the same call run on its own, so finished calls with the
\* same input and options have the same outcome.
C9_CallsIndependent ==
  [][ /\ descriptor' = descriptor
      /\ descriptor' = sharpTransformer
      /\ Cardinality({id \in CallIds : calls'[id] # calls[id]}) <= 1
      /\ \A id \in CallIds :
           /\ Started(calls[id]) =>
                /\ calls'[id].input = calls[id].input
                /\ calls'[id].options = calls[id].options
           /\ calls'[id].pc = "done" =>
                calls'[id].outcome = Transform(calls'[id].input, calls'[id].options)
      /\ \A i, j \in CallIds :
           (/\ calls'[i].pc = "done" /\ calls'[j].pc = "done"
            /\ calls'[i].input = calls'[j].input
            /\ calls'[i].options = calls'[j].options) =>
             calls'[i].outcome = calls'[j].outcome
    ]_vars

C9_Witness ==
  \E i, j \in CallIds :
    /\ i # j
    /\ calls[i].pc = "done" /\ calls[j].pc = "done"
    /\ calls[i].input = calls[j].input
    /\ calls[i].options = calls[j].options
    /\ calls[i].outcome.ok
    /\ Invoked(calls[i], "rotate")

\* C10: fallbackOutput is a supported output, the supported outputs are
\* exactly the formats with an encode directive, and a call made after the
\* fallback substitution forces exactly one encoder: the desired format's
\* when it is supported, the fallback's otherwise.
C10_DescriptorMatchesDispatch ==
  /\ descriptor.fallbackOutput \in descriptor.supportedOutputs
  /\ \A id \in CallIds :
       LET c == calls[id]
       IN  Past(c, "encode") =>
             /\ {c.image.ops[i].format : i \in Directives(c)} =
                  descriptor.supportedOutputs
             /\ Cardinality(Forced(c)) = 1
             /\ Cardinality({i \in Directives(c) : c.image.ops[i].args.force}) = 1
             /\ Forced(c) =
                  {IF c.desired \in descriptor.supportedOutputs
                   THEN c.desired ELSE descriptor.fallbackOutput}
             /\ (c.desired \in descriptor.supportedOutputs
                   /\ c.desired # descriptor.fallbackOutput) =>
                  descriptor.fallbackOutput \notin Forced(c)

C10_Witness ==
  \E id \in CallIds :
    /\ calls[id].pc = "done"
    /\ calls[id].desired = BMP
    /\ calls[id].options.contentType = PNG
    /\ Forced(calls[id]) = {PNG}

====
